---- MODULE Spec2Model ----
(***************************************************************************)
(* Model of src/src/index.js: the unsaved-changes guard and the load /     *)
(* reload lifecycle of the PSPDFKit viewer, with its three input sources   *)
(* (drag and drop, file picker, remote fetch) and the download action.     *)
(*                                                                         *)
(* The browser runs the handlers on one event loop: every action below is  *)
(* one run-to-completion piece of a handler (an event callback, or the     *)
(* continuation of a promise), and the actions interleave freely.          *)
(* PSPDFKit, the network and the file reader are the environment: each     *)
(* pending promise may resolve or reject at any time.                      *)
(***************************************************************************)
EXTENDS Integers, Sequences, FiniteSets, TLC

\* ------------------------------------------------------------------ bounds
\* Number of user gestures (drops, picks, button clicks) in one run.
MaxRequests == 2
\* Number of chunks of a streamed response body.
MaxChunks == 2
\* Number of bytes of a downloaded response body.
MaxBody == 2
\* Number of annotations.change events the library fires while initializing.
MaxInit == 2

\* Byte values of the payloads: two distinct ones tell order and content.
Byte == {0, 1}

\* Sequences over S of length lo..hi.
SeqsOf(S, lo, hi) == UNION {[1..n -> S] : n \in lo..hi}

\* A file is modelled by its content; the lifecycle does not look at it, so
\* one content stands for all.
Pdf == <<0>>
\* What a drop carries: a file.
DropFiles == {<<Pdf>>}
\* What the file input holds on a change event: possibly no file.
PickFiles == {<<>>} \union DropFiles
\* Chunks a response body stream delivers, and whole bodies.
Chunk == {<<0>>, <<1, 0>>}
ChunkSeqs == SeqsOf(Chunk, 0, MaxChunks)
Bodies == SeqsOf(Byte, 0, MaxBody)
\* The payloads the lifecycle specification runs with: one response each.
SomeChunkSeqs == {<< <<0>>, <<1, 0>> >>}
SomeBodies == {<<1, 0>>}

VARIABLES
    hasUnsavedAnnotations,  \* module flag, line 17
    isAlreadyLoaded,        \* module flag, line 18
    destroyListener,        \* TRUE: the drag-drop remover, FALSE: null
    nDestroyed,             \* times the drag-drop remover was invoked
    reads,                  \* drop and picker requests, in order of arrival
    fetches,                \* callWs requests
    downloads,              \* download requests
    saved,                  \* files the browser saved, in order
    loads,                  \* PSPDFKit.load calls and their instances
    calls,                  \* history: one record per load() invocation
    nAlerts,                \* alert() calls
    nErrors                 \* console.error calls

vars == <<hasUnsavedAnnotations, isAlreadyLoaded, destroyListener, nDestroyed,
          reads, fetches, downloads, saved, loads, calls, nAlerts, nErrors>>

\* ------------------------------------------------------------- helpers
RECURSIVE Concat(_)
\* The bytes of a list of buffers, in order (what Response.arrayBuffer and
\* the Blob constructor produce from their parts).
Concat(parts) ==
    IF parts = <<>> THEN <<>> ELSE Head(parts) \o Concat(Tail(parts))

Requests == Len(reads) + Len(fetches) + Len(downloads)

Live == {j \in DOMAIN loads : loads[j].st = "live"}
Pending == {j \in DOMAIN loads : loads[j].st = "pending"}
\* Loads whose promise has resolved, whether or not since unloaded.
Resolved == {j \in DOMAIN loads : loads[j].st \in {"live", "unloaded"}}

Init ==
    /\ hasUnsavedAnnotations = FALSE
    /\ isAlreadyLoaded = FALSE
    /\ destroyListener = TRUE
    /\ nDestroyed = 0
    /\ reads = <<>>
    /\ fetches = <<>>
    /\ downloads = <<>>
    /\ saved = <<>>
    /\ loads = <<>>
    /\ calls = <<>>
    /\ nAlerts = 0
    /\ nErrors = 0

\* ------------------------------------------------- the viewer library
\* PSPDFKit.unload(".App"): every instance mounted in the container goes.
Unload(ls) ==
    [j \in DOMAIN ls |->
        IF ls[j].st = "live" THEN [ls[j] EXCEPT !.st = "unloaded"] ELSE ls[j]]

\* PSPDFKit.load(configuration): a new pending promise.
NewLoad(doc) ==
    [st |-> "pending", doc |-> doc, initialized |-> FALSE,
     initTotal |-> 0, initFired |-> 0, edited |-> FALSE]

\* ---------------------------------------------------------------- load
\* The library calls load() makes, in order.
LoadOps ==
    IF isAlreadyLoaded THEN <<"unload", "load">> ELSE <<"load">>

\* load() without the reset of the dirty flag.
LoadKeepsDirty(doc, src, confirmed) ==
    /\ loads' = Append(IF isAlreadyLoaded THEN Unload(loads) ELSE loads,
                       NewLoad(doc))
    /\ hasUnsavedAnnotations' = hasUnsavedAnnotations
    /\ isAlreadyLoaded' = TRUE
    /\ calls' = Append(calls,
           [src |-> src, confirmed |-> confirmed,
            dirty |-> hasUnsavedAnnotations, loaded |-> isAlreadyLoaded,
            live |-> Live, pending |-> Pending, resolved |-> Resolved,
            ops |-> LoadOps])

\* load() without the assignment isAlreadyLoaded = true.
LoadNeverMarks(doc, src, confirmed) ==
    /\ loads' = Append(IF isAlreadyLoaded THEN Unload(loads) ELSE loads,
                       NewLoad(doc))
    /\ hasUnsavedAnnotations' =
           IF isAlreadyLoaded THEN FALSE ELSE hasUnsavedAnnotations
    /\ isAlreadyLoaded' = isAlreadyLoaded
    /\ calls' = Append(calls,
           [src |-> src, confirmed |-> confirmed,
            dirty |-> hasUnsavedAnnotations, loaded |-> isAlreadyLoaded,
            live |-> Live, pending |-> Pending, resolved |-> Resolved,
            ops |-> LoadOps])

\* load(pdfArrayBuffers), called by request `src` whose confirmation
\* prompt was accepted iff `confirmed`.
Load(doc, src, confirmed) ==
    /\ loads' = Append(IF isAlreadyLoaded THEN Unload(loads) ELSE loads,
                       NewLoad(doc))
    /\ hasUnsavedAnnotations' =
           IF isAlreadyLoaded THEN FALSE ELSE hasUnsavedAnnotations
    /\ isAlreadyLoaded' = TRUE
    /\ calls' = Append(calls,
           [src |-> src, confirmed |-> confirmed,
            dirty |-> hasUnsavedAnnotations, loaded |-> isAlreadyLoaded,
            live |-> Live, pending |-> Pending, resolved |-> Resolved,
            ops |-> LoadOps])

\* PSPDFKit.load resolves: the then-callback attaches a fresh handler. The
\* library will fire k events of its own while it initializes.
PSPDFKitResolve(j, k) ==
    /\ loads[j].st = "pending"
    /\ loads' = [loads EXCEPT ![j].st = "live", ![j].initTotal = k]
    /\ UNCHANGED <<hasUnsavedAnnotations, isAlreadyLoaded, destroyListener,
                   nDestroyed, reads, fetches, downloads, saved, calls,
                   nAlerts, nErrors>>

\* PSPDFKit.load rejects: .catch(console.error).
PSPDFKitReject(j) ==
    /\ loads[j].st = "pending"
    /\ loads' = [loads EXCEPT ![j].st = "rejected"]
    /\ nErrors' = nErrors + 1
    /\ UNCHANGED <<hasUnsavedAnnotations, isAlreadyLoaded, destroyListener,
                   nDestroyed, reads, fetches, downloads, saved, calls,
                   nAlerts>>

\* A handler that does not skip its first call.
OnAnnotationsChangeNoSkip(initialized) ==
    [flag |-> TRUE, initialized |-> TRUE]

\* The handler createOnAnnotationsChange returned, run once with its closure
\* variable `initialized`: the new values of that variable and of the flag.
OnAnnotationsChange(initialized) ==
    IF initialized
    THEN [flag |-> TRUE, initialized |-> initialized]
    ELSE [flag |-> hasUnsavedAnnotations, initialized |-> TRUE]

\* The library fires one of its initialization events on instance j.
AnnotationsChangeInit(j) ==
    /\ loads[j].st = "live"
    /\ loads[j].initFired < loads[j].initTotal
    /\ LET r == OnAnnotationsChange(loads[j].initialized) IN
        /\ hasUnsavedAnnotations' = r.flag
        /\ loads' = [loads EXCEPT ![j].initialized = r.initialized,
                                  ![j].initFired = @ + 1]
    /\ UNCHANGED <<isAlreadyLoaded, destroyListener, nDestroyed, reads,
                   fetches, downloads, saved, calls, nAlerts, nErrors>>

\* The user edits an annotation of instance j, once it has initialized.
AnnotationsChangeEdit(j) ==
    /\ loads[j].st = "live"
    /\ loads[j].initFired = loads[j].initTotal
    /\ LET r == OnAnnotationsChange(loads[j].initialized) IN
        /\ hasUnsavedAnnotations' = r.flag
        /\ loads' = [loads EXCEPT ![j].initialized = r.initialized,
                                  ![j].edited = TRUE]
    /\ UNCHANGED <<isAlreadyLoaded, destroyListener, nDestroyed, reads,
                   fetches, downloads, saved, calls, nAlerts, nErrors>>

\* ------------------------------------------------- drop and file picker
\* A guard that asks before it looks at the flag.
ConfirmShownAlways == TRUE

\* Whether shouldPreventLoad shows window.confirm: && evaluates its right
\* operand only when the flag is set.
ConfirmShown == hasUnsavedAnnotations

\* shouldPreventLoad() without the negation of the answer.
ShouldPreventLoadInverted(answer) == hasUnsavedAnnotations /\ answer

\* shouldPreventLoad(), `answer` being what window.confirm returns.
ShouldPreventLoad(answer) == hasUnsavedAnnotations /\ ~answer

\* destroyDragAndDrop() without the assignment destroyListener = null.
DestroyDragAndDropKeeps ==
    IF destroyListener
    THEN [listener |-> destroyListener, n |-> nDestroyed + 1]
    ELSE [listener |-> destroyListener, n |-> nDestroyed]

\* destroyDragAndDrop(): the new destroyListener and invocation count.
DestroyDragAndDrop ==
    IF destroyListener
    THEN [listener |-> FALSE, n |-> nDestroyed + 1]
    ELSE [listener |-> destroyListener, n |-> nDestroyed]

\* A request of the drop or picker path, as its handler leaves it.
NewRead(src, files, shown, answer, prevented) ==
    [src |-> src, files |-> files, prompted |-> shown,
     accepted |-> shown /\ answer,
     st |-> IF prevented THEN "aborted" ELSE "reading"]

\* onDrop(files): fires only while the drag-drop listeners are attached.
OnDrop(files, answer) ==
    /\ destroyListener
    /\ Requests < MaxRequests
    /\ reads' = Append(reads, NewRead("drop", files, ConfirmShown, answer,
                                      ShouldPreventLoad(answer)))
    /\ UNCHANGED <<hasUnsavedAnnotations, isAlreadyLoaded, destroyListener,
                   nDestroyed, fetches, downloads, saved, loads, calls,
                   nAlerts, nErrors>>

\* The change handler of #selectFile.
OnSelectFile(files, answer) ==
    /\ Requests < MaxRequests
    /\ LET empty == Len(files) = 0 IN
        reads' = Append(reads,
            NewRead("pick", files, ~empty /\ ConfirmShown, answer,
                    empty \/ ShouldPreventLoad(answer)))
    /\ UNCHANGED <<hasUnsavedAnnotations, isAlreadyLoaded, destroyListener,
                   nDestroyed, fetches, downloads, saved, loads, calls,
                   nAlerts, nErrors>>

\* processFiles(files): every file read fully, one buffer per file.
ProcessFiles(files) == files

\* processFiles resolves: destroyDragAndDrop(); load(arrayBuffers). The
\* two paths (lines 102-105 and onFileSelectSuccess) do the same.
ReadResolve(i) ==
    /\ reads[i].st = "reading"
    /\ reads' = [reads EXCEPT ![i].st = "loaded"]
    /\ destroyListener' = DestroyDragAndDrop.listener
    /\ nDestroyed' = DestroyDragAndDrop.n
    /\ Load(ProcessFiles(reads[i].files), reads[i].src, reads[i].accepted)
    /\ UNCHANGED <<fetches, downloads, saved, nAlerts, nErrors>>

\* A rejection handler that also removes the drag-drop listener.
ReadRejectDestroys(i) ==
    /\ reads[i].st = "reading"
    /\ reads' = [reads EXCEPT ![i].st = "failed"]
    /\ nAlerts' = nAlerts + 1
    /\ destroyListener' = DestroyDragAndDrop.listener
    /\ nDestroyed' = DestroyDragAndDrop.n
    /\ UNCHANGED <<hasUnsavedAnnotations, isAlreadyLoaded, fetches,
                   downloads, saved, loads, calls, nErrors>>

\* processFiles rejects: onFail alerts the message.
ReadReject(i) ==
    /\ reads[i].st = "reading"
    /\ reads' = [reads EXCEPT ![i].st = "failed"]
    /\ nAlerts' = nAlerts + 1
    /\ UNCHANGED <<hasUnsavedAnnotations, isAlreadyLoaded, destroyListener,
                   nDestroyed, fetches, downloads, saved, loads, calls,
                   nErrors>>

\* ---------------------------------------------------------------- callWs
\* Click on #callajax: callWs() starts the fetch.
ClickCallajax ==
    /\ Requests < MaxRequests
    /\ fetches' = Append(fetches,
           [st |-> "fetching", source |-> <<>>, pos |-> 0, target |-> <<>>,
            closed |-> 0])
    /\ UNCHANGED <<hasUnsavedAnnotations, isAlreadyLoaded, destroyListener,
                   nDestroyed, reads, downloads, saved, loads, calls,
                   nAlerts, nErrors>>

\* The fetch resolves with a response whose body will deliver `chunks`;
\* the copying stream is created and its start() begins to run.
WsResponse(i, chunks) ==
    /\ fetches[i].st = "fetching"
    /\ fetches' = [fetches EXCEPT ![i].st = "copying", ![i].source = chunks]
    /\ UNCHANGED <<hasUnsavedAnnotations, isAlreadyLoaded, destroyListener,
                   nDestroyed, reads, downloads, saved, loads, calls,
                   nAlerts, nErrors>>

\* A loop that closes the stream one read early, losing the last chunk.
WsReadStopsEarly(i) ==
    /\ fetches[i].st = "copying"
    /\ fetches' =
        IF fetches[i].pos + 1 >= Len(fetches[i].source)
        THEN [fetches EXCEPT ![i].st = "closed", ![i].closed = @ + 1]
        ELSE [fetches EXCEPT
                ![i].target = Append(@, fetches[i].source[fetches[i].pos + 1]),
                ![i].pos = @ + 1]
    /\ UNCHANGED <<hasUnsavedAnnotations, isAlreadyLoaded, destroyListener,
                   nDestroyed, reads, downloads, saved, loads, calls,
                   nAlerts, nErrors>>

\* One turn of the while loop of start(): reader.read() resolves.
WsRead(i) ==
    /\ fetches[i].st = "copying"
    /\ fetches' =
        IF fetches[i].pos = Len(fetches[i].source)
        THEN [fetches EXCEPT ![i].st = "closed", ![i].closed = @ + 1]
        ELSE [fetches EXCEPT
                ![i].target = Append(@, fetches[i].source[fetches[i].pos + 1]),
                ![i].pos = @ + 1]
    /\ UNCHANGED <<hasUnsavedAnnotations, isAlreadyLoaded, destroyListener,
                   nDestroyed, reads, downloads, saved, loads, calls,
                   nAlerts, nErrors>>

\* response.arrayBuffer() resolves with the bytes of the closed stream:
\* load(arrayBuffer). No confirmation is asked on this path.
WsArrayBuffer(i) ==
    /\ fetches[i].st = "closed"
    /\ fetches' = [fetches EXCEPT ![i].st = "loaded"]
    /\ Load(Concat(fetches[i].target), "ws", FALSE)
    /\ UNCHANGED <<destroyListener, nDestroyed, reads, downloads, saved,
                   nAlerts, nErrors>>

\* The fetch or a read of the body fails: the chain rejects, unhandled.
WsFail(i) ==
    /\ fetches[i].st \in {"fetching", "copying"}
    /\ fetches' = [fetches EXCEPT ![i].st = "failed"]
    /\ UNCHANGED <<hasUnsavedAnnotations, isAlreadyLoaded, destroyListener,
                   nDestroyed, reads, downloads, saved, loads, calls,
                   nAlerts, nErrors>>

\* -------------------------------------------------------------- download
\* new Blob() built without its parts.
NewBlobEmpty(parts) == <<>>

\* new Blob(parts): the bytes of the parts, in order.
NewBlob(parts) == Concat(parts)

\* Click on #download: download() starts the fetch.
ClickDownload ==
    /\ Requests < MaxRequests
    /\ downloads' = Append(downloads, [st |-> "fetching", body |-> <<>>])
    /\ UNCHANGED <<hasUnsavedAnnotations, isAlreadyLoaded, destroyListener,
                   nDestroyed, reads, fetches, saved, loads, calls,
                   nAlerts, nErrors>>

\* await fetch(...) resolves with a response whose body is `body`.
DownloadResponse(i, body) ==
    /\ downloads[i].st = "fetching"
    /\ downloads' = [downloads EXCEPT ![i].st = "blob", ![i].body = body]
    /\ UNCHANGED <<hasUnsavedAnnotations, isAlreadyLoaded, destroyListener,
                   nDestroyed, reads, fetches, saved, loads, calls,
                   nAlerts, nErrors>>

\* await res.blob() resolves; the rest of download() runs: the blob is
\* wrapped in a new Blob and saved through the anchor's download attribute.
DownloadSave(i) ==
    /\ downloads[i].st = "blob"
    /\ downloads' = [downloads EXCEPT ![i].st = "saved"]
    /\ saved' = Append(saved,
           [name |-> "a.pdf", by |-> i,
            bytes |-> NewBlob(<<downloads[i].body>>)])
    /\ UNCHANGED <<hasUnsavedAnnotations, isAlreadyLoaded, destroyListener,
                   nDestroyed, reads, fetches, loads, calls, nAlerts,
                   nErrors>>

\* The fetch or the read of the body fails: download() rejects, unhandled.
DownloadFail(i) ==
    /\ downloads[i].st \in {"fetching", "blob"}
    /\ downloads' = [downloads EXCEPT ![i].st = "failed"]
    /\ UNCHANGED <<hasUnsavedAnnotations, isAlreadyLoaded, destroyListener,
                   nDestroyed, reads, fetches, saved, loads, calls,
                   nAlerts, nErrors>>

\* ------------------------------------------------------- specification
Next ==
    \/ \E files \in DropFiles, answer \in BOOLEAN : OnDrop(files, answer)
    \/ \E files \in PickFiles, answer \in BOOLEAN : OnSelectFile(files, answer)
    \/ \E i \in DOMAIN reads : ReadResolve(i)
    \/ \E i \in DOMAIN reads : ReadReject(i)
    \/ ClickCallajax
    \/ \E i \in DOMAIN fetches, chunks \in SomeChunkSeqs : WsResponse(i, chunks)
    \/ \E i \in DOMAIN fetches : WsRead(i)
    \/ \E i \in DOMAIN fetches : WsArrayBuffer(i)
    \/ \E i \in DOMAIN fetches : WsFail(i)
    \/ ClickDownload
    \/ \E i \in DOMAIN downloads, body \in SomeBodies : DownloadResponse(i, body)
    \/ \E i \in DOMAIN downloads : DownloadSave(i)
    \/ \E i \in DOMAIN downloads : DownloadFail(i)
    \/ \E j \in DOMAIN loads, k \in 1..MaxInit : PSPDFKitResolve(j, k)
    \/ \E j \in DOMAIN loads : PSPDFKitReject(j)
    \/ \E j \in DOMAIN loads : AnnotationsChangeInit(j)
    \/ \E j \in DOMAIN loads : AnnotationsChangeEdit(j)

Spec == Init /\ [][Next]_vars

\* The download action alone, over every response body of Bodies.
NextDownload ==
    \/ ClickDownload
    \/ \E i \in DOMAIN downloads, body \in Bodies : DownloadResponse(i, body)
    \/ \E i \in DOMAIN downloads : DownloadSave(i)
    \/ \E i \in DOMAIN downloads : DownloadFail(i)

SpecDownload == Init /\ [][NextDownload]_vars

\* callWs alone, over every chunk sequence of ChunkSeqs that a response
\* body delivers in full (a transport failure is a step of Next only).
NextStream ==
    \/ ClickCallajax
    \/ \E i \in DOMAIN fetches, chunks \in ChunkSeqs : WsResponse(i, chunks)
    \/ \E i \in DOMAIN fetches : WsRead(i)
    \/ \E i \in DOMAIN fetches : WsArrayBuffer(i)

\* The event loop runs every continuation that is ready: a resolved read of
\* the body and a resolved arrayBuffer() are not left waiting forever.
SpecStream ==
    /\ Init
    /\ [][NextStream]_vars
    /\ WF_vars(\E i \in DOMAIN fetches : WsRead(i))
    /\ WF_vars(\E i \in DOMAIN fetches : WsArrayBuffer(i))

\* ------------------------------------------------------------ properties
Range(f) == {f[x] : x \in DOMAIN f}
DropOrPick == {"drop", "pick"}
\* Request i of the drop or picker path was shown the prompt and declined.
Declined(r) == r.prompted /\ ~r.accepted

\* C1: every load() call that runs with hasUnsavedAnnotations = TRUE, and so
\* every one that unloads the instance of a dirty session, belongs to a
\* request whose confirmation prompt was shown and accepted.
C1_DirtyTeardownOnlyThroughGate ==
    \A k \in DOMAIN calls :
        /\ calls[k].dirty => calls[k].confirmed
        /\ (calls[k].dirty /\ "unload" \in Range(calls[k].ops))
               => calls[k].confirmed

\* C2: a drop or pick whose prompt was declined is aborted, never reads its
\* files, and the step that handles it leaves the flags (the dirty flag
\* still TRUE), the instances, the library calls and the drag-drop listener
\* as they were.
C2_DeclineChangesNothing ==
    [][\A i \in DOMAIN reads' :
          Declined(reads'[i]) =>
              /\ reads'[i].st = "aborted"
              /\ i \notin DOMAIN reads =>
                    /\ hasUnsavedAnnotations /\ hasUnsavedAnnotations'
                    /\ UNCHANGED <<isAlreadyLoaded, loads, calls,
                                   destroyListener, nDestroyed>>]_vars

\* C2 witness: a declined request while a dirty instance is mounted.
C2_Witness ==
    /\ \E i \in DOMAIN reads : Declined(reads[i]) /\ reads[i].st = "aborted"
    /\ hasUnsavedAnnotations
    /\ \E j \in Live : loads[j].edited

\* Some load has succeeded, the library has fired all its initialization
\* events on it, and the user has edited no mounted instance.
JustLoaded ==
    /\ \E j \in Live : loads[j].initFired = loads[j].initTotal
    /\ \A j \in Live : ~loads[j].edited

C4_UnloadIffInstance ==
    \A k \in DOMAIN calls :
        /\ calls[k].live # {} => calls[k].ops = <<"unload", "load">>
        /\ "unload" \in Range(calls[k].ops) => calls[k].live # {}

\* C5: at most one instance is mounted and at most one PSPDFKit.load is in
\* flight.
C5_OneInstanceOneLoad ==
    /\ Cardinality(Live) <= 1
    /\ Cardinality(Pending) <= 1

\* C6: isAlreadyLoaded is true only if some PSPDFKit.load has resolved.
C6_LoadedOnlyIfResolved == isAlreadyLoaded => Resolved # {}

\* C7: when PSPDFKit.load rejects, the error is logged, no load is retried,
\* and the flags and the mounted instances are what they were before the
\* load() that made the call.
C7_FailedLoadKeepsState ==
    [][\A j \in DOMAIN loads :
          (loads[j].st = "pending" /\ loads'[j].st = "rejected") =>
              /\ nErrors' = nErrors + 1
              /\ Len(loads') = Len(loads)
              /\ hasUnsavedAnnotations' = calls[j].dirty
              /\ isAlreadyLoaded' = calls[j].loaded
              /\ Live' = calls[j].live]_vars

\* C8: load() is reached from the drop path at most once, and never after
\* some PDF has been loaded.
C8_DropOnlyFirstPdf ==
    /\ Cardinality({k \in DOMAIN calls : calls[k].src = "drop"}) <= 1
    /\ \A k \in DOMAIN calls :
           calls[k].src = "drop" => calls[k].resolved = {}

\* The files download request i has saved.
SavedBy(i) == {n \in DOMAIN saved : saved[n].by = i}

\* C9: a completed download has saved exactly one file, named a.pdf, whose
\* bytes are the response body; a download that has not completed has saved
\* none.
C9_DownloadSavesBody ==
    \A i \in DOMAIN downloads :
        IF downloads[i].st = "saved"
        THEN /\ Cardinality(SavedBy(i)) = 1
             /\ \A n \in SavedBy(i) :
                    /\ saved[n].name = "a.pdf"
                    /\ saved[n].bytes = downloads[i].body
        ELSE SavedBy(i) = {}

\* C9 witness: a saved download whose body has two different bytes.
C9_Witness ==
    \E i \in DOMAIN downloads :
        /\ downloads[i].st = "saved"
        /\ Len(downloads[i].body) = 2
        /\ downloads[i].body[1] # downloads[i].body[2]
        /\ SavedBy(i) # {}

\* C10: in the drop and picker paths, every load() that runs with the dirty
\* flag set was preceded by an accepted confirmation in its own request.
C10_DirtyFileLoadWasConfirmed ==
    \A k \in DOMAIN calls :
        (calls[k].src \in DropOrPick /\ calls[k].dirty)
            => calls[k].confirmed

\* Instance j has fired an annotations.change event after its first one.
FiredLater(j) ==
    loads[j].initFired + (IF loads[j].edited THEN 1 ELSE 0) >= 2

TearsDown ==
    /\ Len(calls') = Len(calls) + 1
    /\ "unload" \in Range(calls'[Len(calls')].ops)
    /\ calls'[Len(calls')].live # {}

\* C12: the dirty flag goes from true to false only in a load() step that
\* unloads a mounted instance, and every load() step that unloads a mounted
\* instance leaves the flag false.
C12_ResetIffTeardown ==
    [][/\ (hasUnsavedAnnotations /\ ~hasUnsavedAnnotations') => TearsDown
       /\ TearsDown => ~hasUnsavedAnnotations']_vars

\* C12 witness: a load() that found the session dirty has unloaded the
\* instance and the flag is false.
C12_Witness ==
    \E k \in DOMAIN calls :
        /\ calls[k].dirty
        /\ calls[k].live # {}
        /\ loads[k].st = "pending"
        /\ \A j \in calls[k].live : loads[j].st = "unloaded"
        /\ ~hasUnsavedAnnotations

\* The step adds a load() call made by the drop or picker path.
FileLoadStep ==
    /\ Len(calls') = Len(calls) + 1
    /\ calls'[Len(calls')].src \in DropOrPick

\* C13: in the drop and picker paths load() runs only in the step in which
\* processFiles resolves, with the buffers it read; when processFiles
\* rejects there is one alert, the request stays failed (no retry, no
\* load), and the flags, the instances, the library calls and the drag-drop
\* listener are unchanged.
C13_ReadFailureOnlyAlerts ==
    [][/\ \A i \in DOMAIN reads :
            /\ (reads[i].st = "reading" /\ reads'[i].st = "failed") =>
                  /\ nAlerts' = nAlerts + 1
                  /\ Len(reads') = Len(reads)
                  /\ UNCHANGED <<hasUnsavedAnnotations, isAlreadyLoaded,
                                 loads, calls, destroyListener, nDestroyed>>
            /\ reads[i].st = "failed" => reads'[i].st = "failed"
       /\ FileLoadStep =>
            \E i \in DOMAIN reads :
                /\ reads[i].st = "reading" /\ reads'[i].st = "loaded"
                /\ reads[i].src = calls'[Len(calls')].src
                /\ loads'[Len(loads')].doc = ProcessFiles(reads[i].files)]_vars

\* C13 witness: the read of an accepted request failed while the session was
\* dirty; nothing but the alert happened.
C13_Witness ==
    \E i \in DOMAIN reads :
        /\ reads[i].st = "failed"
        /\ reads[i].accepted
        /\ hasUnsavedAnnotations
        /\ nAlerts = 1
        /\ Live # {}

\* C14: the handler of a drop or a pick shows the prompt iff the dirty flag
\* is set and the selection is not empty; with the flag clear a non-empty
\* selection goes on to read its files unprompted, and an empty selection
\* is dropped without prompt or read whatever the flag.
C14_PromptIffDirtyAndFiles ==
    [][\A i \in DOMAIN reads' \ DOMAIN reads :
          LET r == reads'[i] IN
          /\ r.prompted <=> (hasUnsavedAnnotations /\ Len(r.files) > 0)
          /\ (~hasUnsavedAnnotations /\ Len(r.files) > 0) => r.st = "reading"
          /\ Len(r.files) = 0 => r.st = "aborted"]_vars

\* C14 witness: an empty selection handled while the session is dirty.
C14_Witness ==
    \E i \in DOMAIN reads :
        /\ reads[i].files = <<>>
        /\ ~reads[i].prompted
        /\ reads[i].st = "aborted"
        /\ hasUnsavedAnnotations

\* What the copy of request i has done so far is consistent: the target
\* holds the chunks read, in source order, and is closed at most once and
\* only with every chunk in it.
CopyInOrder(i) ==
    LET f == fetches[i] IN
    /\ f.pos <= Len(f.source)
    /\ f.target = SubSeq(f.source, 1, f.pos)
    /\ f.closed <= 1
    /\ f.closed = 1 <=> f.st \in {"closed", "loaded"}
    /\ f.closed = 1 => f.target = f.source

\* The step is the load() call of request i, made once its stream is closed,
\* with the bytes of the source chunks.
LoadsCopy(i) ==
    /\ fetches[i].st = "closed"
    /\ Len(loads') = Len(loads) + 1
    /\ loads'[Len(loads')].doc = Concat(fetches[i].source)

\* C15: for every chunk sequence the copy enqueues each chunk once in source
\* order, closes the target once and only after the source is done, then
\* calls load() once with the concatenation of the chunks, and every copy
\* that has started ends with that load().
C15_StreamCopy ==
    /\ [](\A i \in DOMAIN fetches : CopyInOrder(i))
    /\ [](Len(loads) =
            Cardinality({i \in DOMAIN fetches : fetches[i].st = "loaded"}))
    /\ [][\A i \in DOMAIN fetches :
            /\ fetches'[i].st = "loaded" /\ fetches[i].st # "loaded"
                  => LoadsCopy(i)
            /\ fetches[i].st = "loaded" => fetches'[i] = fetches[i]]_vars
    /\ <>[](\A i \in DOMAIN fetches :
                fetches[i].st \in {"fetching", "loaded"})

\* C15 witness: a body of two different chunks has been copied and loaded.
C15_Witness ==
    \E i \in DOMAIN fetches :
        /\ fetches[i].st = "loaded"
        /\ Len(fetches[i].source) = 2
        /\ fetches[i].source[1] # fetches[i].source[2]
        /\ \E j \in DOMAIN loads : loads[j].doc = Concat(fetches[i].source)

\* C16: the dirty flag is set only in a session that has started a load.
C16_DirtyImpliesLoaded == hasUnsavedAnnotations => isAlreadyLoaded

\* C16 witness: an edited instance has made a loaded session dirty.
C16_Witness ==
    /\ hasUnsavedAnnotations
    /\ isAlreadyLoaded
    /\ \E j \in Live : loads[j].edited /\ loads[j].initTotal = 1

RECURSIVE UnloadCalls(_)
\* The PSPDFKit.unload calls of the first n load() invocations.
UnloadCalls(n) ==
    IF n = 0 THEN 0
    ELSE UnloadCalls(n - 1)
         + Len(SelectSeq(calls[n].ops, LAMBDA o : o = "unload"))

C18_DestroyOnce ==
    [][/\ nDestroyed' <= 1
       /\ nDestroyed' = 1 => ~destroyListener'
       /\ ~destroyListener =>
             /\ ~destroyListener'
             /\ nDestroyed' = nDestroyed]_vars

\* C18 witness: two file reads have resolved, so destroyDragAndDrop has run
\* twice, and the remover was invoked once.
C18_Witness ==
    /\ Cardinality({i \in DOMAIN reads : reads[i].st = "loaded"}) = 2
    /\ nDestroyed = 1
    /\ ~destroyListener

====
